---- MODULE Spec2Model ----
(***************************************************************************)
(* Prediction-market AMM contract (amm/src/market.rs, market_creation.rs): *)
(* the stored markets, the market lifecycle (create_market, set_outcome,   *)
(* resolute_market, claim_earnings) and the trading entry points that      *)
(* delegate to the pool.  Every contract call is one atomic step; a call   *)
(* that panics leaves the contract state as it was (the host reverts it)   *)
(* and is recorded, with its error, in `last`.                             *)
(*                                                                         *)
(* u128 arithmetic is checked: an overflow or an underflow panics.         *)
(***************************************************************************)
EXTENDS Integers, Sequences, FiniteSets, TLC

VARIABLES markets, now, last

vars == <<markets, now, last>>

(***************************************************************************)
(* Bounds of the model.                                                    *)
(***************************************************************************)
MaxMarkets == 1
MaxTime == 1
MaxEnd == 1
MaxVal == 2
MaxU128 == 7
MaxAmount == 2
MaxSupply == 1
MaxReserve == 3
MaxShares == 1
MaxFees == 1
PoolMaxSupply == 2
PoolMaxReserve == 3
PoolMaxShares == 2
PoolMaxFees == 1
Denom == 4
ScalarMaxBound == 3
ScalarMaxVal == 5
MaxCreated == 2
CreateMaxEnd == 2

(***************************************************************************)
(* Accounts of the test fixtures: bob is governance, oracle.near the       *)
(* oracle, token.near the whitelisted collateral token.                    *)
(***************************************************************************)
Gov == "bob"
Oracle == "oracle"
Token == "token"
Callers == {"alice", Gov, Oracle}
Creators == {"alice"}
Traders == {"alice"}

None == [some |-> FALSE, v |-> <<>>]
Some(x) == [some |-> TRUE, v |-> <<x>>]
Unwrap(o) == o.v[1]

RECURSIVE SumSeq(_)
SumSeq(s) == IF s = <<>> THEN 0 ELSE Head(s) + SumSeq(Tail(s))

Ids == 0 .. MaxMarkets

(***************************************************************************)
(* OutcomeTag: Number(NumberOutcomeTag) | String(String).                  *)
(***************************************************************************)
NumberTag(value, negative) ==
    [kind |-> "Number", value |-> value, negative |-> negative, str |-> ""]
StringTag(s) ==
    [kind |-> "String", value |-> 0, negative |-> FALSE, str |-> s]

(***************************************************************************)
(* AnswerType of the oracle: Number(AnswerNumberType) | String(String).    *)
(***************************************************************************)
AnswerNumber(value, negative) ==
    [kind |-> "Number", value |-> value, negative |-> negative, str |-> ""]
AnswerString(s) ==
    [kind |-> "String", value |-> 0, negative |-> FALSE, str |-> s]

(***************************************************************************)
(* Outcome of the oracle: Answer(AnswerType) | Invalid.                    *)
(***************************************************************************)
OutcomeInvalid == [kind |-> "Invalid", answer |-> AnswerString("")]
OutcomeAnswer(a) == [kind |-> "Answer", answer |-> a]

(***************************************************************************)
(* Helpers of the crate that market.rs calls: the privilege checks, the    *)
(* u128 clamp and the fixed-point multiply/divide of the math module.      *)
(***************************************************************************)
assert_gov(caller) == caller = Gov

assert_oracle(caller) == caller = Oracle

clamp_u128(value, min, max) ==
    IF value < min THEN min ELSE IF value > max THEN max ELSE value

complex_div_u128(base, a, b) == (a * base) \div b

complex_mul_u128(base, a, b) == (a * b) \div base

(***************************************************************************)
(* flatten_outcome_tags: every tag as a string (a number tag by its        *)
(* decimal value).                                                         *)
(***************************************************************************)
U128ToString(n) ==
    IF n < 10 THEN <<"0", "1", "2", "3", "4", "5", "6", "7", "8", "9">>[n + 1]
    ELSE "big"

flatten_outcome_tags(tags) ==
    [i \in DOMAIN tags |->
        IF tags[i].kind = "String" THEN tags[i].str ELSE U128ToString(tags[i].value)]

(***************************************************************************)
(* tags[0].parse::<u64>() of set_outcome: the market id as a decimal       *)
(* string; -1 stands for a string that does not parse.                     *)
(***************************************************************************)
ParseU64(s) ==
    CASE s = "0" -> 0
      [] s = "1" -> 1
      [] s = "2" -> 2
      [] OTHER -> -1

(***************************************************************************)
(* The pool created by pool_factory::new_pool for a market.                *)
(***************************************************************************)
new_pool(outcomes, collateral_token_id, swap_fee) ==
    [outcomes |-> outcomes,
     collateral_token_id |-> collateral_token_id,
     collateral_denomination |-> Denom,
     swap_fee |-> swap_fee,
     outcome_reserves |-> [i \in 1 .. outcomes |-> 0],
     lp_supply |-> 0,
     lp_balances |-> [a \in Traders |-> 0],
     fee_pool_weight |-> 0,
     outcome_share_balances |-> [a \in Traders |-> [i \in 1 .. outcomes |-> 0]],
     withdrawn_fees |-> [a \in Traders |-> 0]]

(***************************************************************************)
(* Pool: the bonding-curve engine the market delegates to.  Every          *)
(* operation yields [err, pool, ret]: the error it fails with ("OK" when   *)
(* it succeeds), the pool after it and the value it returns.               *)
(***************************************************************************)
MaxOf(s) == CHOOSE x \in {s[i] : i \in DOMAIN s} : \A i \in DOMAIN s : s[i] <= x

CeilDiv(a, b) == (a + b - 1) \div b

PoolFail(pool, err) == [err |-> err, pool |-> pool, ret |-> 0]

PoolFee(pool, amount) == (amount * pool.swap_fee) \div pool.collateral_denomination

get_fees_withdrawable(pool, account) ==
    IF pool.lp_supply = 0 THEN 0
    ELSE LET raw == (pool.lp_balances[account] * pool.fee_pool_weight) \div pool.lp_supply
         IN  IF raw < pool.withdrawn_fees[account] THEN 0
             ELSE raw - pool.withdrawn_fees[account]

RECURSIVE BuyProduct(_, _, _, _, _)
BuyProduct(reserves, target, delta, i, acc) ==
    IF i > Len(reserves) THEN acc
    ELSE IF i = target THEN BuyProduct(reserves, target, delta, i + 1, acc)
    ELSE BuyProduct(reserves, target, delta, i + 1,
                    CeilDiv(acc * reserves[i], reserves[i] + delta))

calc_buy_amount(pool, collateral_in, outcome_target) ==
    LET net == collateral_in - PoolFee(pool, collateral_in)
        r == pool.outcome_reserves
    IN  r[outcome_target] + net - BuyProduct(r, outcome_target, net, 1, r[outcome_target])

calc_sell_collateral_out(pool, collateral_out, outcome_target) ==
    LET r == pool.outcome_reserves
    IN  collateral_out + BuyProduct(r, outcome_target, 0 - collateral_out, 1, r[outcome_target])
            - r[outcome_target]

pool_add_liquidity(pool, sender, total_in, weight_indication) ==
    LET n == pool.outcomes
        r == pool.outcome_reserves
        seed == pool.lp_supply = 0
        base == IF seed THEN weight_indication.v[1] ELSE r
        maxb == MaxOf(base)
        added == [i \in 1 .. n |-> (total_in * base[i]) \div maxb]
        minted == IF seed THEN total_in ELSE (total_in * pool.lp_supply) \div maxb
        ineligible == IF seed THEN 0 ELSE (pool.fee_pool_weight * minted) \div pool.lp_supply
    IN  IF seed /\ ~weight_indication.some THEN PoolFail(pool, "ERR_EXPECTED_WEIGHT_INDICATION")
        ELSE IF ~seed /\ weight_indication.some THEN PoolFail(pool, "ERR_UNEXPECTED_WEIGHT_INDICATION")
        ELSE IF seed /\ Len(base) # n THEN PoolFail(pool, "ERR_INVALID_WEIGHTS")
        ELSE IF \E i \in 1 .. n : added[i] = 0 THEN PoolFail(pool, "ERR_ZERO_RESERVE")
        ELSE [err |-> "OK",
              ret |-> minted,
              pool |-> [pool EXCEPT
                  !.outcome_reserves = [i \in 1 .. n |-> r[i] + added[i]],
                  !.lp_supply = @ + minted,
                  !.lp_balances[sender] = @ + minted,
                  !.fee_pool_weight = @ + ineligible,
                  !.withdrawn_fees[sender] = @ + ineligible,
                  !.outcome_share_balances[sender] =
                      [i \in 1 .. n |-> @[i] + (total_in - added[i])]]]

pool_exit_pool(pool, sender, total_in) ==
    LET n == pool.outcomes
        r == pool.outcome_reserves
        out == [i \in 1 .. n |-> (r[i] * total_in) \div pool.lp_supply]
        fees_earned == get_fees_withdrawable(pool, sender)
        withdrawn == pool.withdrawn_fees[sender] + fees_earned
        ineligible == (pool.fee_pool_weight * total_in) \div pool.lp_supply
        share == IF ineligible < withdrawn THEN ineligible ELSE withdrawn
    IN  IF total_in > pool.lp_balances[sender] \/ pool.lp_supply = 0
        THEN PoolFail(pool, "ERR_INSUFFICIENT_BALANCE")
        ELSE [err |-> "OK",
              ret |-> fees_earned,
              pool |-> [pool EXCEPT
                  !.outcome_reserves = [i \in 1 .. n |-> r[i] - out[i]],
                  !.lp_supply = @ - total_in,
                  !.lp_balances[sender] = @ - total_in,
                  !.fee_pool_weight = @ - share,
                  !.withdrawn_fees[sender] = withdrawn - share,
                  !.outcome_share_balances[sender] = [i \in 1 .. n |-> @[i] + out[i]]]]

pool_buy(pool, sender, collateral_in, outcome_target, min_shares_out) ==
    LET n == pool.outcomes
        r == pool.outcome_reserves
        fee == PoolFee(pool, collateral_in)
        net == collateral_in - fee
        shares_out == calc_buy_amount(pool, collateral_in, outcome_target)
    IN  IF outcome_target \notin 1 .. n THEN PoolFail(pool, "ERR_INVALID_OUTCOME")
        ELSE IF pool.lp_supply = 0 THEN PoolFail(pool, "ERR_NO_LIQUIDITY")
        ELSE IF shares_out < min_shares_out THEN PoolFail(pool, "ERR_MIN_BUY_AMOUNT")
        ELSE [err |-> "OK",
              ret |-> shares_out,
              pool |-> [pool EXCEPT
                  !.outcome_reserves =
                      [i \in 1 .. n |-> IF i = outcome_target THEN r[i] + net - shares_out
                                        ELSE r[i] + net],
                  !.fee_pool_weight = @ + fee,
                  !.outcome_share_balances[sender][outcome_target] = @ + shares_out]]

pool_sell(pool, sender, collateral_out, outcome_target, max_shares_in) ==
    LET n == pool.outcomes
        r == pool.outcome_reserves
        fee == PoolFee(pool, collateral_out)
        shares_in == calc_sell_collateral_out(pool, collateral_out, outcome_target)
    IN  IF outcome_target \notin 1 .. n THEN PoolFail(pool, "ERR_INVALID_OUTCOME")
        ELSE IF \E i \in 1 .. n : i # outcome_target /\ r[i] <= collateral_out
        THEN PoolFail(pool, "ERR_INSUFFICIENT_LIQUIDITY")
        ELSE IF shares_in > max_shares_in THEN PoolFail(pool, "ERR_MAX_SELL_AMOUNT")
        ELSE IF shares_in > pool.outcome_share_balances[sender][outcome_target]
        THEN PoolFail(pool, "ERR_INSUFFICIENT_BALANCE")
        ELSE [err |-> "OK",
              ret |-> fee,
              pool |-> [pool EXCEPT
                  !.outcome_reserves =
                      [i \in 1 .. n |-> IF i = outcome_target THEN r[i] + shares_in - collateral_out
                                        ELSE r[i] - collateral_out],
                  !.fee_pool_weight = @ + fee,
                  !.outcome_share_balances[sender][outcome_target] = @ - shares_in]]

pool_burn_outcome_tokens_redeem_collateral_RefundsFee(pool, sender, to_burn) ==
    LET n == pool.outcomes
        fee == PoolFee(pool, to_burn)
    IN  IF \E i \in 1 .. n : pool.outcome_share_balances[sender][i] < to_burn
        THEN PoolFail(pool, "ERR_INSUFFICIENT_BALANCE")
        ELSE [err |-> "OK",
              ret |-> fee,
              pool |-> [pool EXCEPT
                  !.fee_pool_weight = @ - fee,
                  !.outcome_share_balances[sender] = [i \in 1 .. n |-> @[i] - to_burn]]]

pool_burn_outcome_tokens_redeem_collateral(pool, sender, to_burn) ==
    LET n == pool.outcomes
        fee == PoolFee(pool, to_burn)
    IN  IF \E i \in 1 .. n : pool.outcome_share_balances[sender][i] < to_burn
        THEN PoolFail(pool, "ERR_INSUFFICIENT_BALANCE")
        ELSE [err |-> "OK",
              ret |-> fee,
              pool |-> [pool EXCEPT
                  !.fee_pool_weight = @ + fee,
                  !.outcome_share_balances[sender] = [i \in 1 .. n |-> @[i] - to_burn]]]

pool_payout(pool, account, payout_numerator) ==
    LET n == pool.outcomes
        bal == pool.outcome_share_balances[account]
        owed == IF payout_numerator.some
                THEN SumSeq([i \in 1 .. n |->
                        (bal[i] * Unwrap(payout_numerator)[i]) \div pool.collateral_denomination])
                ELSE 0
    IN  [err |-> "OK",
         ret |-> owed,
         pool |-> [pool EXCEPT !.outcome_share_balances[account] = [i \in 1 .. n |-> 0]]]

(***************************************************************************)
(* create_market: the validation of the payload, in the order of the       *)
(* asserts, as the error it panics with ("OK" when it passes).             *)
(***************************************************************************)
CollateralWhitelist == {Token}

create_market_asserts(payload, skip) ==
    LET tags == payload.outcome_tags
        lower_bound_tag == tags[1]
        upper_bound_tag == tags[2]
        lower_bound == lower_bound_tag.value
        upper_bound == upper_bound_tag.value
        wrong_bounds == IF "ERR_WRONG_BOUNDS" \in skip THEN "OK" ELSE "ERR_WRONG_BOUNDS"
    IN  IF payload.collateral_token_id \notin CollateralWhitelist THEN "ERR_INVALID_COLLATERAL"
        ELSE IF Len(tags) # payload.outcomes THEN "ERR_INVALID_TAG_LENGTH"
        ELSE IF ~(payload.end_time > now) THEN "ERR_INVALID_END_TIME"
        ELSE IF ~(payload.resolution_time >= payload.end_time)
                /\ "ERR_INVALID_RESOLUTION_TIME" \notin skip
        THEN "ERR_INVALID_RESOLUTION_TIME"
        ELSE IF ~payload.is_scalar THEN "OK"
        ELSE IF ~payload.scalar_multiplier.some THEN "ERR_NO_MULTIPLIER"
        ELSE IF Len(tags) # 2 THEN "ERR_MAX_2_OUTCOMES"
        ELSE IF lower_bound_tag.kind # "Number" THEN "ERR_NON_NUMBER"
        ELSE IF upper_bound_tag.kind # "Number" THEN "ERR_NON_NUMBER"
        ELSE IF lower_bound_tag.negative /\ lower_bound = 0 /\ "ERR_NEGATIVE_ZERO" \notin skip
        THEN "ERR_NEGATIVE_ZERO"
        ELSE IF upper_bound_tag.negative /\ upper_bound = 0 /\ "ERR_NEGATIVE_ZERO" \notin skip
        THEN "ERR_NEGATIVE_ZERO"
        ELSE IF ~lower_bound_tag.negative /\ ~upper_bound_tag.negative
             THEN (IF lower_bound < upper_bound THEN "OK"
                   ELSE IF lower_bound = upper_bound /\ "equal bounds" \in skip THEN "OK"
                   ELSE wrong_bounds)
        ELSE IF ~lower_bound_tag.negative /\ upper_bound_tag.negative THEN wrong_bounds
        ELSE IF lower_bound_tag.negative /\ upper_bound_tag.negative
             THEN (IF lower_bound > upper_bound THEN "OK" ELSE wrong_bounds)
        ELSE "OK"

create_market_NoNegativeZeroCheck(payload) ==
    create_market_asserts(payload, {"ERR_NEGATIVE_ZERO"})

create_market_NoBoundsCheck(payload) ==
    create_market_asserts(payload, {"ERR_WRONG_BOUNDS"})

create_market_NoResolutionTimeCheck(payload) ==
    create_market_asserts(payload, {"ERR_INVALID_RESOLUTION_TIME"})

create_market_AllowsEqualBounds(payload) ==
    create_market_asserts(payload, {"equal bounds"})

create_market_result(payload) == create_market_asserts(payload, {})

NewMarket(payload, creator) ==
    [end_time |-> payload.end_time,
     resolution_time |-> payload.resolution_time,
     pool |-> new_pool(payload.outcomes, payload.collateral_token_id, payload.swap_fee),
     payout_numerator |-> None,
     finalized |-> FALSE,
     enabled |-> TRUE,
     is_scalar |-> payload.is_scalar,
     outcome_tags |-> payload.outcome_tags,
     scalar_multiplier |-> payload.scalar_multiplier,
     data_request_finalized |-> FALSE,
     dr_creator |-> creator]

(***************************************************************************)
(* The scalar branch of set_outcome: the bounds and the answer shifted to  *)
(* one unsigned line, the answer clamped, the payout interpolated.  panic  *)
(* is TRUE when a checked u128 operation of the branch fails (underflow,   *)
(* overflow, division by zero).                                            *)
(***************************************************************************)
ScalarOutcome_branches(lower_bound_tag, upper_bound_tag, answer_info, denom, skip) ==
    LET lb0 == lower_bound_tag.value
        ub0 == upper_bound_tag.value
        a0 == answer_info.value
        bothNeg == lower_bound_tag.negative /\ upper_bound_tag.negative
        mixed == lower_bound_tag.negative /\ ~upper_bound_tag.negative
        below == answer_info.negative /\ lb0 < a0
        range0 == lb0 - ub0
        lower_bound == IF bothNeg \/ mixed THEN 0 ELSE lb0
        upper_bound == IF bothNeg THEN range0 ELSE IF mixed THEN ub0 + lb0 ELSE ub0
        answer_value ==
            IF bothNeg
            THEN (IF below THEN 0
                  ELSE IF ~answer_info.negative /\ "non-negative answer" \notin skip
                  THEN range0
                  ELSE lb0 - a0)
            ELSE IF mixed
            THEN (IF below THEN 0 ELSE a0 + lb0)
            ELSE IF answer_info.negative /\ ~lower_bound_tag.negative
                    /\ "negative answer" \notin skip
            THEN lb0
            ELSE a0
        pointer_value == clamp_u128(answer_value, lower_bound, upper_bound)
        range == upper_bound - lower_bound
        percentage_upper_bound == complex_div_u128(denom, upper_bound - pointer_value, range)
        payout_short == complex_mul_u128(denom, percentage_upper_bound, denom)
        fault ==
            IF bothNeg /\ lb0 < ub0 THEN "underflow"
            ELSE IF mixed /\ ub0 + lb0 > MaxU128 THEN "overflow"
            ELSE IF mixed /\ ~below /\ a0 + lb0 > MaxU128 THEN "overflow"
            ELSE IF upper_bound < lower_bound THEN "underflow"
            ELSE IF upper_bound < pointer_value THEN "underflow"
            ELSE IF range = 0 THEN "division by zero"
            ELSE IF denom < payout_short THEN "underflow"
            ELSE ""
        panic == fault # ""
    IN  [panic |-> panic,
         fault |-> fault,
         range |-> range,
         upper_bound |-> upper_bound,
         pointer_value |-> pointer_value,
         v |-> IF panic THEN <<>> ELSE <<payout_short, denom - payout_short>>]

ScalarOutcome_NoNegativeAnswerBranch(lower_bound_tag, upper_bound_tag, answer_info, denom) ==
    ScalarOutcome_branches(lower_bound_tag, upper_bound_tag, answer_info, denom,
                           {"negative answer"})

ScalarOutcome_NoNonNegativeAnswerBranch(lower_bound_tag, upper_bound_tag, answer_info, denom) ==
    ScalarOutcome_branches(lower_bound_tag, upper_bound_tag, answer_info, denom,
                           {"non-negative answer"})

ScalarOutcome(lower_bound_tag, upper_bound_tag, answer_info, denom) ==
    ScalarOutcome_branches(lower_bound_tag, upper_bound_tag, answer_info, denom, {})

(***************************************************************************)
(* The categorical branch of set_outcome: the one-hot vector at the        *)
(* position of the answer among the flattened tags.                        *)
(***************************************************************************)
Position(strs, s) ==
    IF \E i \in DOMAIN strs : strs[i] = s
    THEN CHOOSE i \in DOMAIN strs : strs[i] = s /\ \A j \in DOMAIN strs : strs[j] = s => i <= j
    ELSE 0

CategoricalOutcome_FirstIndex(outcome_tags, answer_string, denom) ==
    [i \in DOMAIN outcome_tags |-> IF i = 1 THEN denom ELSE 0]

CategoricalOutcome(outcome_tags, answer_string, denom) ==
    LET index == Position(flatten_outcome_tags(outcome_tags), answer_string)
    IN  [i \in DOMAIN outcome_tags |-> IF i = index THEN denom ELSE 0]

(***************************************************************************)
(* The record of the last call: the operation, the market id it           *)
(* addressed, its result ("OK" or the error it panicked with) and the      *)
(* transfer it issued.                                                     *)
(***************************************************************************)
NoTransfer == [issued |-> FALSE, to |-> "", amount |-> 0]
Transfer(to, amount) == [issued |-> TRUE, to |-> to, amount |-> amount]

Call(op, mid, result, transfer) ==
    [op |-> op, mid |-> mid, result |-> result, transfer |-> transfer]

HasMarket(mid) == mid >= 0 /\ mid < Len(markets)

Market(mid) == markets[mid + 1]

Replace_First(mid, market) == [markets EXCEPT ![1] = market]

Replace(mid, market) == [markets EXCEPT ![mid + 1] = market]

(***************************************************************************)
(* The inputs the calls are drawn from.                                    *)
(***************************************************************************)
ScalarTagSets ==
    {<<NumberTag(2, TRUE), NumberTag(1, TRUE)>>,
     <<NumberTag(1, TRUE), NumberTag(1, FALSE)>>,
     <<NumberTag(0, FALSE), NumberTag(2, FALSE)>>,
     <<NumberTag(1, FALSE), NumberTag(1, TRUE)>>,
     <<NumberTag(0, TRUE), NumberTag(1, FALSE)>>,
     <<NumberTag(1, TRUE), NumberTag(0, TRUE)>>,
     <<NumberTag(1, FALSE), NumberTag(1, FALSE)>>,
     <<NumberTag(1, TRUE), NumberTag(2, TRUE)>>,
     <<StringTag("YES"), NumberTag(1, FALSE)>>,
     <<NumberTag(0, FALSE), StringTag("NO")>>,
     <<NumberTag(0, FALSE), NumberTag(1, FALSE), NumberTag(2, FALSE)>>}

CategoricalTagSets ==
    {<<StringTag("YES"), StringTag("NO")>>,
     <<StringTag("YES"), StringTag("NO"), StringTag("MAYBE")>>}

Payloads ==
    [outcomes : {2},
     outcome_tags : ScalarTagSets,
     end_time : 0 .. MaxEnd,
     resolution_time : 0 .. MaxEnd,
     collateral_token_id : {Token, "other"},
     swap_fee : {Denom \div 2},
     is_scalar : {TRUE},
     scalar_multiplier : {None, Some(1)}]
    \cup
    [outcomes : {2},
     outcome_tags : CategoricalTagSets,
     end_time : 0 .. MaxEnd,
     resolution_time : 0 .. MaxEnd,
     collateral_token_id : {Token, "other"},
     swap_fee : {Denom \div 2},
     is_scalar : {FALSE},
     scalar_multiplier : {None}]
    \cup
    [outcomes : {3},
     outcome_tags : {<<NumberTag(0, FALSE), NumberTag(1, FALSE), NumberTag(2, FALSE)>>},
     end_time : {MaxEnd},
     resolution_time : {MaxEnd},
     collateral_token_id : {Token},
     swap_fee : {Denom \div 2},
     is_scalar : {TRUE},
     scalar_multiplier : {Some(1)}]

Answers ==
    {AnswerNumber(v, neg) : v \in 0 .. MaxVal, neg \in BOOLEAN}
        \cup {AnswerString(s) : s \in {"YES", "NO", "OTHER"}}

Outcomes == {OutcomeInvalid} \cup {OutcomeAnswer(a) : a \in Answers}

TagArgs == {<<>>, <<"0">>, <<"1">>}

PayoutArgs ==
    {None,
     Some(<<Denom, 0>>), Some(<<1, Denom - 1>>),
     Some(<<Denom, 1>>), Some(<<Denom>>), Some(<<Denom, Denom>>), Some(<<1>>)}

Amounts == 1 .. MaxAmount

Targets == 0 .. 2

WeightArgs == {None, Some(<<1, 1>>), Some(<<1>>)}

(***************************************************************************)
(* create_market                                                           *)
(***************************************************************************)
create_market_Overwrites(creator, payload) ==
    LET result == create_market_result(payload)
        market_id == Len(markets)
    IN  /\ markets' = IF result = "OK" THEN <<NewMarket(payload, creator)>> ELSE markets
        /\ last' = Call("create_market", market_id, result, NoTransfer)
        /\ UNCHANGED now

create_market(creator, payload) ==
    LET result == create_market_result(payload)
        market_id == Len(markets)
    IN  /\ markets' = IF result = "OK" THEN Append(markets, NewMarket(payload, creator))
                      ELSE markets
        /\ last' = Call("create_market", market_id, result, NoTransfer)
        /\ UNCHANGED now

(***************************************************************************)
(* resolute_market                                                         *)
(***************************************************************************)
resolute_market_asserts(caller, market_id, payout_numerator, skip) ==
    IF ~HasMarket(market_id) THEN "ERR_NO_MARKET"
    ELSE LET market == Market(market_id)
             v == Unwrap(payout_numerator)
         IN  IF ~market.enabled THEN "ERR_DISABLED_MARKET"
             ELSE IF market.finalized /\ "ERR_IS_FINALIZED" \notin skip THEN "ERR_IS_FINALIZED"
             ELSE IF payout_numerator.some /\ ~assert_gov(caller)
                     /\ "ERR_NO_GOVERNANCE_ADDRESS" \notin skip
             THEN "ERR_NO_GOVERNANCE_ADDRESS"
             ELSE IF payout_numerator.some /\ ~market.data_request_finalized
                     /\ "governance waits for the oracle" \in skip
             THEN "ERR_DATA_REQUEST_NOT_FINALIZED"
             ELSE IF ~payout_numerator.some
                  THEN (IF market.data_request_finalized
                           \/ "ERR_DATA_REQUEST_NOT_FINALIZED" \in skip
                        THEN "OK"
                        ELSE "ERR_DATA_REQUEST_NOT_FINALIZED")
             ELSE IF SumSeq(v) > MaxU128 THEN "ERR_OVERFLOW"
             ELSE IF SumSeq(v) # market.pool.collateral_denomination
                     /\ "ERR_INVALID_PAYOUT_SUM" \notin skip
             THEN "ERR_INVALID_PAYOUT_SUM"
             ELSE IF Len(v) # market.pool.outcomes /\ "ERR_INVALID_NUMERATOR" \notin skip
             THEN "ERR_INVALID_NUMERATOR"
             ELSE "OK"

resolute_market_NoSumCheck(caller, market_id, payout_numerator) ==
    resolute_market_asserts(caller, market_id, payout_numerator, {"ERR_INVALID_PAYOUT_SUM"})

resolute_market_NoFinalizedCheck(caller, market_id, payout_numerator) ==
    resolute_market_asserts(caller, market_id, payout_numerator, {"ERR_IS_FINALIZED"})

resolute_market_NoDataRequestCheck(caller, market_id, payout_numerator) ==
    resolute_market_asserts(caller, market_id, payout_numerator,
                            {"ERR_DATA_REQUEST_NOT_FINALIZED"})

resolute_market_NoGovCheck(caller, market_id, payout_numerator) ==
    resolute_market_asserts(caller, market_id, payout_numerator,
                            {"ERR_NO_GOVERNANCE_ADDRESS"})

resolute_market_NoLengthCheck(caller, market_id, payout_numerator) ==
    resolute_market_asserts(caller, market_id, payout_numerator, {"ERR_INVALID_NUMERATOR"})

resolute_market_GovernanceWaitsForOracle(caller, market_id, payout_numerator) ==
    resolute_market_asserts(caller, market_id, payout_numerator,
                            {"governance waits for the oracle"})

resolute_market_result(caller, market_id, payout_numerator) ==
    resolute_market_asserts(caller, market_id, payout_numerator, {})

resolute_market_update_KeepsPayout(market, payout_numerator) ==
    [market EXCEPT !.finalized = TRUE]

resolute_market_update_StampsResolutionTime(market, payout_numerator) ==
    [market EXCEPT !.payout_numerator = payout_numerator,
                   !.finalized = TRUE,
                   !.resolution_time = now]

resolute_market_update(market, payout_numerator) ==
    [market EXCEPT !.payout_numerator = payout_numerator, !.finalized = TRUE]

resolute_market(caller, market_id, payout_numerator) ==
    LET result == resolute_market_result(caller, market_id, payout_numerator)
    IN  /\ markets' = IF result = "OK"
                      THEN Replace(market_id,
                                   resolute_market_update(Market(market_id), payout_numerator))
                      ELSE markets
        /\ last' = Call("resolute_market", market_id, result, NoTransfer)
        /\ UNCHANGED now

(***************************************************************************)
(* set_outcome                                                             *)
(***************************************************************************)
set_outcome_market_id(tags) == IF tags = <<>> THEN -1 ELSE ParseU64(tags[1])

set_outcome_payout_InvalidKeeps(market, outcome) ==
    IF outcome.kind = "Invalid" THEN market.payout_numerator
    ELSE IF market.is_scalar
    THEN Some(ScalarOutcome(market.outcome_tags[1], market.outcome_tags[2], outcome.answer,
                            market.pool.collateral_denomination).v)
    ELSE Some(CategoricalOutcome(market.outcome_tags, outcome.answer.str,
                                 market.pool.collateral_denomination))

set_outcome_payout(market, outcome) ==
    IF outcome.kind = "Invalid" THEN None
    ELSE IF market.is_scalar
    THEN Some(ScalarOutcome(market.outcome_tags[1], market.outcome_tags[2], outcome.answer,
                            market.pool.collateral_denomination).v)
    ELSE Some(CategoricalOutcome(market.outcome_tags, outcome.answer.str,
                                 market.pool.collateral_denomination))

set_outcome_asserts(caller, outcome, tags, skip) ==
    LET market_id == set_outcome_market_id(tags)
    IN  IF ~assert_oracle(caller) /\ "ERR_NO_ORACLE_ADDRESS" \notin skip
        THEN "ERR_NO_ORACLE_ADDRESS"
        ELSE IF market_id < 0 THEN "ERR_UNWRAP"
        ELSE IF ~HasMarket(market_id) THEN "ERR_NO_MARKET"
        ELSE LET market == Market(market_id)
                 answer == outcome.answer
             IN  IF outcome.kind = "Invalid" THEN "OK"
                 ELSE IF market.is_scalar
                 THEN (IF market.outcome_tags[1].kind # "Number" THEN "ERR_WRONG_OUTCOME"
                       ELSE IF market.outcome_tags[2].kind # "Number" THEN "ERR_WRONG_OUTCOME"
                       ELSE IF answer.kind # "Number" THEN "ERR_NUMBER_EXPECTED"
                       ELSE IF ScalarOutcome(market.outcome_tags[1], market.outcome_tags[2],
                                             answer, market.pool.collateral_denomination).panic
                       THEN "ERR_ARITHMETIC"
                       ELSE "OK")
                 ELSE IF answer.kind # "String" /\ "ERR_STRING_EXPECTED" \notin skip
                 THEN "ERR_STRING_EXPECTED"
                 ELSE IF Position(flatten_outcome_tags(market.outcome_tags), answer.str) = 0
                         /\ "ERR_OUTCOME_NOT_IN_TAGS" \notin skip
                 THEN "ERR_OUTCOME_NOT_IN_TAGS"
                 ELSE "OK"

set_outcome_NoOracleCheck(caller, outcome, tags) ==
    set_outcome_asserts(caller, outcome, tags, {"ERR_NO_ORACLE_ADDRESS"})

set_outcome_NoTagCheck(caller, outcome, tags) ==
    set_outcome_asserts(caller, outcome, tags, {"ERR_OUTCOME_NOT_IN_TAGS"})

set_outcome_NoStringCheck(caller, outcome, tags) ==
    set_outcome_asserts(caller, outcome, tags, {"ERR_STRING_EXPECTED"})

set_outcome_result(caller, outcome, tags) == set_outcome_asserts(caller, outcome, tags, {})

set_outcome_update_Reopens(market, outcome) ==
    [market EXCEPT !.payout_numerator = set_outcome_payout(market, outcome),
                   !.data_request_finalized = TRUE,
                   !.finalized = FALSE]

set_outcome_update(market, outcome) ==
    [market EXCEPT !.payout_numerator = set_outcome_payout(market, outcome),
                   !.data_request_finalized = TRUE]

set_outcome(caller, outcome, tags) ==
    LET result == set_outcome_result(caller, outcome, tags)
        market_id == set_outcome_market_id(tags)
    IN  /\ markets' = IF result = "OK"
                      THEN Replace(market_id, set_outcome_update(Market(market_id), outcome))
                      ELSE markets
        /\ last' = Call("set_outcome", market_id, result,
                        IF result = "OK" THEN Transfer(Market(market_id).dr_creator, 0)
                        ELSE NoTransfer)
        /\ UNCHANGED now

(***************************************************************************)
(* The trading entry points: the market's guards, then the pool's          *)
(* operation on a copy of the market, then markets.replace, then the       *)
(* collateral transfer.  Targets are the u16 outcome indices 0 .. n-1.     *)
(***************************************************************************)
TradeGuard_EndInclusive(market_id, check_finalized, finalized_err, check_end) ==
    IF ~HasMarket(market_id) THEN "ERR_NO_MARKET"
    ELSE IF ~Market(market_id).enabled THEN "ERR_DISABLED_MARKET"
    ELSE IF check_finalized /\ Market(market_id).finalized THEN finalized_err
    ELSE IF check_end /\ ~(Market(market_id).end_time >= now) THEN "ERR_MARKET_ENDED"
    ELSE "OK"

TradeGuard(market_id, check_finalized, finalized_err, check_end) ==
    IF ~HasMarket(market_id) THEN "ERR_NO_MARKET"
    ELSE IF ~Market(market_id).enabled THEN "ERR_DISABLED_MARKET"
    ELSE IF check_finalized /\ Market(market_id).finalized THEN finalized_err
    ELSE IF check_end /\ ~(Market(market_id).end_time > now) THEN "ERR_MARKET_ENDED"
    ELSE "OK"

Apply_TransfersOnFailure(op, caller, market_id, guard, r, transfer) ==
    LET result == IF guard # "OK" THEN guard ELSE r.err
    IN  /\ markets' = IF result = "OK"
                      THEN Replace(market_id, [Market(market_id) EXCEPT !.pool = r.pool])
                      ELSE markets
        /\ last' = Call(op, market_id, result, transfer)
        /\ UNCHANGED now

Apply_TransferWithoutReplace(op, caller, market_id, guard, r, transfer) ==
    LET result == IF guard # "OK" THEN guard ELSE r.err
    IN  /\ markets' = IF result = "OK" /\ op \in {"add_liquidity", "buy"}
                      THEN Replace(market_id, [Market(market_id) EXCEPT !.pool = r.pool])
                      ELSE markets
        /\ last' = Call(op, market_id, result,
                        IF result = "OK" THEN transfer ELSE NoTransfer)
        /\ UNCHANGED now

Apply(op, caller, market_id, guard, r, transfer) ==
    LET result == IF guard # "OK" THEN guard ELSE r.err
    IN  /\ markets' = IF result = "OK"
                      THEN Replace(market_id, [Market(market_id) EXCEPT !.pool = r.pool])
                      ELSE markets
        /\ last' = Call(op, market_id, result,
                        IF result = "OK" THEN transfer ELSE NoTransfer)
        /\ UNCHANGED now

sell_guard(market_id) == TradeGuard(market_id, TRUE, "ERR_FINALIZED_MARKET", TRUE)

sell_TransfersRequested(caller, market_id, collateral_out, outcome_target, max_shares_in) ==
    LET guard == sell_guard(market_id)
        r == IF guard = "OK"
             THEN pool_sell(Market(market_id).pool, caller, collateral_out,
                            outcome_target + 1, max_shares_in)
             ELSE PoolFail(<<>>, guard)
    IN  Apply("sell", caller, market_id, guard, r, Transfer(caller, collateral_out))

sell(caller, market_id, collateral_out, outcome_target, max_shares_in) ==
    LET guard == sell_guard(market_id)
        r == IF guard = "OK"
             THEN pool_sell(Market(market_id).pool, caller, collateral_out,
                            outcome_target + 1, max_shares_in)
             ELSE PoolFail(<<>>, guard)
    IN  Apply("sell", caller, market_id, guard, r, Transfer(caller, collateral_out - r.ret))

burn_guard_NoFinalizedCheck(market_id) == TradeGuard(market_id, FALSE, "", FALSE)

burn_guard(market_id) == TradeGuard(market_id, TRUE, "ERR_MARKET_FINALIZED", FALSE)

burn_outcome_tokens_redeem_collateral(caller, market_id, to_burn) ==
    LET guard == burn_guard(market_id)
        r == IF guard = "OK"
             THEN pool_burn_outcome_tokens_redeem_collateral(Market(market_id).pool, caller, to_burn)
             ELSE PoolFail(<<>>, guard)
    IN  Apply("burn_outcome_tokens_redeem_collateral", caller, market_id, guard, r,
              Transfer(caller, to_burn - r.ret))

exit_pool_guard(market_id) == TradeGuard(market_id, FALSE, "", FALSE)

exit_pool_AlwaysTransfers(caller, market_id, total_in) ==
    LET guard == exit_pool_guard(market_id)
        r == IF guard = "OK"
             THEN pool_exit_pool(Market(market_id).pool, caller, total_in)
             ELSE PoolFail(<<>>, guard)
    IN  Apply("exit_pool", caller, market_id, guard, r, Transfer(caller, r.ret))

exit_pool(caller, market_id, total_in) ==
    LET guard == exit_pool_guard(market_id)
        r == IF guard = "OK"
             THEN pool_exit_pool(Market(market_id).pool, caller, total_in)
             ELSE PoolFail(<<>>, guard)
    IN  Apply("exit_pool", caller, market_id, guard, r,
              IF r.ret > 0 THEN Transfer(caller, r.ret) ELSE NoTransfer)

add_liquidity_guard(market_id) == TradeGuard(market_id, TRUE, "ERR_FINALIZED_MARKET", TRUE)

add_liquidity(sender, market_id, total_in, weight_indication) ==
    LET guard == add_liquidity_guard(market_id)
        r == IF guard = "OK"
             THEN pool_add_liquidity(Market(market_id).pool, sender, total_in, weight_indication)
             ELSE PoolFail(<<>>, guard)
    IN  Apply("add_liquidity", sender, market_id, guard, r, NoTransfer)

buy_guard(market_id) == TradeGuard(market_id, TRUE, "ERR_FINALIZED_MARKET", TRUE)

buy(sender, market_id, collateral_in, outcome_target, min_shares_out) ==
    LET guard == buy_guard(market_id)
        r == IF guard = "OK"
             THEN pool_buy(Market(market_id).pool, sender, collateral_in,
                           outcome_target + 1, min_shares_out)
             ELSE PoolFail(<<>>, guard)
    IN  Apply("buy", sender, market_id, guard, r, NoTransfer)

(***************************************************************************)
(* claim_earnings: the pool's payout on a copy of the market; a payout of  *)
(* zero panics after markets.replace, and the panic reverts the call.      *)
(***************************************************************************)
claim_earnings_guard_NoFinalizedCheck(market_id) ==
    IF ~HasMarket(market_id) THEN "ERR_NO_MARKET"
    ELSE IF ~Market(market_id).enabled THEN "ERR_DISABLED_MARKET"
    ELSE "OK"

claim_earnings_guard(market_id) ==
    IF ~HasMarket(market_id) THEN "ERR_NO_MARKET"
    ELSE IF ~Market(market_id).enabled THEN "ERR_DISABLED_MARKET"
    ELSE IF ~Market(market_id).finalized THEN "ERR_NOT_FINALIZED"
    ELSE "OK"

claim_earnings_payout_NoPanic(guard, r) == r

claim_earnings_payout(guard, r) ==
    IF guard = "OK" /\ ~(r.ret > 0) THEN PoolFail(<<>>, "ERR_NO_PAYOUT") ELSE r

claim_earnings(caller, market_id) ==
    LET guard == claim_earnings_guard(market_id)
        r == IF guard = "OK"
             THEN pool_payout(Market(market_id).pool, caller, Market(market_id).payout_numerator)
             ELSE PoolFail(<<>>, guard)
        checked == claim_earnings_payout(guard, r)
    IN  Apply("claim_earnings", caller, market_id, guard, checked, Transfer(caller, r.ret))

(***************************************************************************)
(* The views (get_pool_swap_fee, get_fee_pool_weight,                      *)
(* get_pool_token_total_supply, get_pool_balances, get_pool_token_balance, *)
(* get_spot_price_sans_fee, get_spot_price, calc_buy_amount,               *)
(* calc_sell_collateral_out, get_share_balance, get_fees_withdrawable):    *)
(* each reads the market through get_market_expect and writes nothing.     *)
(***************************************************************************)
get_market_expect_Unchecked(market_id) == "OK"

get_market_expect(market_id) == IF HasMarket(market_id) THEN "OK" ELSE "ERR_NO_MARKET"

view(market_id) ==
    /\ last' = Call("view", market_id, get_market_expect(market_id), NoTransfer)
    /\ UNCHANGED <<markets, now>>

(***************************************************************************)
(* The block time advances between calls.                                  *)
(***************************************************************************)
Tick ==
    /\ now < MaxTime
    /\ now' = now + 1
    /\ UNCHANGED <<markets, last>>

Init ==
    /\ markets = <<>>
    /\ now = 0
    /\ last = Call("init", 0, "OK", NoTransfer)

(***************************************************************************)
(* The limits of a specification: the inputs its calls are drawn from and  *)
(* the caps that keep the pool's counters bounded.  A call that would      *)
(* take a counter past its cap is not taken.                               *)
(***************************************************************************)
Limits ==
    [payloads |-> Payloads, outcomes |-> Outcomes, payouts |-> PayoutArgs,
     amounts |-> Amounts, weights |-> WeightArgs,
     markets |-> MaxMarkets, supply |-> MaxSupply, reserve |-> MaxReserve,
     shares |-> MaxShares, fees |-> MaxFees]

WithinCaps(L, pool) ==
    /\ pool.lp_supply <= L.supply
    /\ pool.fee_pool_weight <= L.fees
    /\ \A i \in DOMAIN pool.outcome_reserves : pool.outcome_reserves[i] <= L.reserve
    /\ \A a \in Traders : \A i \in DOMAIN pool.outcome_reserves :
          pool.outcome_share_balances[a][i] <= L.shares

Capped(L) == \A k \in DOMAIN markets' : WithinCaps(L, markets'[k].pool)

Step(L) ==
    \/ /\ Len(markets) < L.markets
       /\ \E c \in Creators, p \in L.payloads : create_market(c, p)
    \/ \E c \in Callers, i \in Ids, p \in L.payouts : resolute_market(c, i, p)
    \/ \E c \in Callers, o \in L.outcomes, t \in TagArgs : set_outcome(c, o, t)
    \/ \E c \in Traders, i \in Ids, a \in L.amounts, w \in L.weights :
          add_liquidity(c, i, a, w) /\ Capped(L)
    \/ \E c \in Traders, i \in Ids, a \in L.amounts, t \in Targets, m \in L.amounts :
          buy(c, i, a, t, m) /\ Capped(L)
    \/ \E c \in Traders, i \in Ids, a \in L.amounts, t \in Targets, m \in L.amounts :
          sell(c, i, a, t, m) /\ Capped(L)
    \/ \E c \in Traders, i \in Ids, a \in L.amounts : exit_pool(c, i, a) /\ Capped(L)
    \/ \E c \in Traders, i \in Ids, a \in L.amounts :
          burn_outcome_tokens_redeem_collateral(c, i, a) /\ Capped(L)
    \/ \E c \in Traders, i \in Ids : claim_earnings(c, i)
    \/ \E i \in Ids : view(i)
    \/ Tick

Next == Step(Limits)

Spec == Init /\ [][Next]_vars

(***************************************************************************)
(* The specification of the trading claims: categorical markets only, a    *)
(* label or an invalid outcome from the oracle, and a pool with room for   *)
(* a sale and for an exit that pays fees.                                  *)
(***************************************************************************)
PoolPayloads == {p \in Payloads : ~p.is_scalar /\ p.collateral_token_id = Token}

PoolOutcomes == {OutcomeInvalid, OutcomeAnswer(AnswerString("YES")),
                 OutcomeAnswer(AnswerString("OTHER"))}

PoolPayoutArgs == {None, Some(<<1, Denom - 1>>), Some(<<Denom, 1>>)}

PoolLimits ==
    [payloads |-> PoolPayloads, outcomes |-> PoolOutcomes, payouts |-> PoolPayoutArgs,
     amounts |-> Amounts, weights |-> WeightArgs,
     markets |-> MaxMarkets, supply |-> PoolMaxSupply, reserve |-> PoolMaxReserve,
     shares |-> PoolMaxShares, fees |-> PoolMaxFees]

NextPool == Step(PoolLimits)

SpecPool == Init /\ [][NextPool]_vars

(***************************************************************************)
(* The pool specification for the fee claims.  With a denomination of      *)
(* Denom the rate of one half rounds the fee on one unit down to nothing,  *)
(* so the markets here take the whole denomination as their rate and a fee *)
(* is collected on every unit sold or burned; the share balances, the      *)
(* amounts and the reserves go one higher, which a sale out of equal       *)
(* reserves needs.                                                         *)
(***************************************************************************)
FeeMaxShares == 3

FeePayloads == {[p EXCEPT !.swap_fee = Denom] : p \in PoolPayloads}

FeeMaxReserve == 4

FeeAmounts == 1 .. FeeMaxShares

FeeLimits ==
    [PoolLimits EXCEPT !.payloads = FeePayloads, !.amounts = FeeAmounts,
                       !.shares = FeeMaxShares, !.reserve = FeeMaxReserve]

NextFee == Step(FeeLimits)

SpecFee == Init /\ [][NextFee]_vars

(***************************************************************************)
(* The specification of the scalar claims: scalar markets over every pair  *)
(* of signed bounds up to ScalarMaxBound, numeric answers up to            *)
(* ScalarMaxVal of either sign, and a pool that takes no liquidity.        *)
(***************************************************************************)
ScalarPayloads ==
    [outcomes : {2},
     outcome_tags : {<<NumberTag(l, ln), NumberTag(u, un)>> :
                        l \in 0 .. ScalarMaxBound, u \in 0 .. ScalarMaxBound,
                        ln \in BOOLEAN, un \in BOOLEAN},
     end_time : {MaxEnd},
     resolution_time : {MaxEnd},
     collateral_token_id : {Token},
     swap_fee : {Denom \div 2},
     is_scalar : {TRUE},
     scalar_multiplier : {Some(1)}]

ScalarAnswers == {AnswerNumber(v, neg) : v \in 0 .. ScalarMaxVal, neg \in BOOLEAN}

ScalarOutcomes == {OutcomeAnswer(a) : a \in ScalarAnswers}

ScalarLimits ==
    [payloads |-> ScalarPayloads, outcomes |-> ScalarOutcomes,
     payouts |-> {None, Some(<<Denom, 0>>)},
     amounts |-> {1}, weights |-> {None},
     markets |-> MaxMarkets, supply |-> 0, reserve |-> 0, shares |-> 0, fees |-> 0]

NextScalar == Step(ScalarLimits)

SpecScalar == Init /\ [][NextScalar]_vars

(***************************************************************************)
(* The specification of the categorical claims: categorical markets of     *)
(* two and three outcomes, with string tags or number tags, labels that    *)
(* match a tag and labels that match none, and a pool that takes no        *)
(* liquidity.                                                              *)
(***************************************************************************)
LabelTagSets ==
    CategoricalTagSets
        \cup {<<StringTag("NO"), StringTag("MAYBE"), StringTag("YES")>>,
              <<NumberTag(1, FALSE), NumberTag(2, FALSE)>>}

LabelPayloads ==
    [outcomes : {2, 3},
     outcome_tags : LabelTagSets,
     end_time : {MaxEnd},
     resolution_time : {MaxEnd},
     collateral_token_id : {Token},
     swap_fee : {Denom \div 2},
     is_scalar : {FALSE},
     scalar_multiplier : {None}]

Labels == {"YES", "NO", "MAYBE", "OTHER", "1", "2", ""}

LabelOutcomes ==
    {OutcomeInvalid, OutcomeAnswer(AnswerNumber(1, FALSE))}
        \cup {OutcomeAnswer(AnswerString(l)) : l \in Labels}

LabelLimits ==
    [payloads |-> LabelPayloads, outcomes |-> LabelOutcomes,
     payouts |-> {None, Some(<<Denom, 0>>), Some(<<0, 0, Denom>>)},
     amounts |-> {1}, weights |-> {None},
     markets |-> MaxMarkets, supply |-> 0, reserve |-> 0, shares |-> 0, fees |-> 0]

NextCategorical == Step(LabelLimits)

SpecCategorical == Init /\ [][NextCategorical]_vars

(***************************************************************************)
(* The categorical specification with a fair governance: a resolute_market *)
(* call of the governance account with a payout vector the market accepts  *)
(* is not postponed forever while it stays possible.                       *)
(***************************************************************************)
GovernanceResolves(market_id) ==
    \E p \in LabelLimits.payouts :
        /\ p.some
        /\ resolute_market_result(Gov, market_id, p) = "OK"
        /\ resolute_market(Gov, market_id, p)

SpecLive ==
    /\ Init
    /\ [][NextCategorical]_vars
    /\ \A i \in Ids : WF_vars(GovernanceResolves(i))

(***************************************************************************)
(* The specification of the creation claims: two markets, every payload    *)
(* of Payloads and categorical payloads with later end and resolution      *)
(* times, an invalid outcome from the oracle, and a pool that takes no     *)
(* liquidity.                                                              *)
(***************************************************************************)
CreatePayloads ==
    Payloads
        \cup [outcomes : {2},
              outcome_tags : {<<StringTag("YES"), StringTag("NO")>>},
              end_time : 0 .. CreateMaxEnd,
              resolution_time : 0 .. CreateMaxEnd,
              collateral_token_id : {Token},
              swap_fee : {Denom \div 2},
              is_scalar : {FALSE},
              scalar_multiplier : {None}]

CreateLimits ==
    [payloads |-> CreatePayloads, outcomes |-> {OutcomeInvalid},
     payouts |-> {None},
     amounts |-> {1}, weights |-> {None},
     markets |-> MaxCreated, supply |-> 0, reserve |-> 0, shares |-> 0, fees |-> 0]

NextCreate == Step(CreateLimits)

SpecCreate == Init /\ [][NextCreate]_vars

(***************************************************************************)
(* The specification with two markets side by side: one kind of market, a  *)
(* pool of one unit of liquidity and one share, and every entry point      *)
(* addressed to either market.                                             *)
(***************************************************************************)
PairMaxSupply == 1

PairMaxReserve == 2

PairMaxShares == 1

PairPayloads ==
    [outcomes : {2},
     outcome_tags : {<<StringTag("YES"), StringTag("NO")>>},
     end_time : {MaxEnd},
     resolution_time : {MaxEnd},
     collateral_token_id : {Token},
     swap_fee : {Denom \div 2},
     is_scalar : {FALSE},
     scalar_multiplier : {None}]

PairLimits ==
    [payloads |-> PairPayloads,
     outcomes |-> {OutcomeInvalid, OutcomeAnswer(AnswerString("YES"))},
     payouts |-> {None, Some(<<Denom, 0>>)},
     amounts |-> {1}, weights |-> {None, Some(<<1, 1>>)},
     markets |-> MaxCreated, supply |-> PairMaxSupply, reserve |-> PairMaxReserve,
     shares |-> PairMaxShares, fees |-> 0]

NextPair == Step(PairLimits)

SpecPair == Init /\ [][NextPair]_vars

(***************************************************************************)
(* Properties.                                                             *)
(***************************************************************************)
MarketIds == {i \in Ids : HasMarket(i)}

IsOpen(market_id) ==
    /\ Market(market_id).enabled
    /\ ~Market(market_id).finalized
    /\ now < Market(market_id).end_time

\* C1: in every reachable state, a finalized market whose payout_numerator is
\* present has a payout_numerator that sums exactly to the pool's
\* collateral_denomination.
C1_FinalizedPayoutSumsToDenomination ==
    \A i \in MarketIds :
        (Market(i).finalized /\ Market(i).payout_numerator.some)
            => SumSeq(Unwrap(Market(i).payout_numerator)) = Market(i).pool.collateral_denomination

C1_Witness ==
    /\ last.op = "resolute_market" /\ last.result = "OK"
    /\ Market(last.mid).finalized
    /\ Market(last.mid).payout_numerator.some

\* C2: once a market is finalized, no step changes its payout_numerator.
C2_FinalizedPayoutIsFixed ==
    [][\A i \in MarketIds :
          Market(i).finalized => markets'[i + 1].payout_numerator = Market(i).payout_numerator]_vars

\* C3: a resolute_market call without a payout vector that finalizes a market
\* leaves on the market the payout_numerator the oracle's answer produced.
C3_OraclePathKeepsResolverPayout ==
    [][\A c \in Callers, i \in MarketIds :
          (last'.op = "resolute_market" /\ last'.result = "OK" /\ resolute_market(c, i, None))
              => markets'[i + 1].payout_numerator = Market(i).payout_numerator]_vars

\* C4: after a successful set_outcome the market it addressed is finalized.
C4_SetOutcomeFinalizes ==
    (last.op = "set_outcome" /\ last.result = "OK") => Market(last.mid).finalized

\* C5: resolute_market on a finalized market fails with ERR_IS_FINALIZED, for
\* every caller and every argument, and leaves every market unchanged.
C5_ResoluteFinalizedFails ==
    [][\A c \in Callers, i \in MarketIds, p \in PayoutArgs :
          (last'.op = "resolute_market" /\ Market(i).finalized /\ resolute_market(c, i, p))
              => (last'.result = "ERR_IS_FINALIZED" /\ markets' = markets)]_vars

C5_Witness ==
    /\ last.op = "resolute_market" /\ last.result = "ERR_IS_FINALIZED"
    /\ Market(last.mid).finalized

\* C6: a resolute_market call without a payout vector succeeds only if
\* data_request_finalized is true, which only a successful set_outcome sets;
\* on an unfinalized market without it the call fails with
\* ERR_DATA_REQUEST_NOT_FINALIZED and the market stays as it was.
C6_OraclePathNeedsDataRequest ==
    [][/\ \A c \in Callers, i \in MarketIds :
             (last'.op = "resolute_market" /\ resolute_market(c, i, None))
                 => /\ last'.result = "OK" => Market(i).data_request_finalized
                    /\ (~Market(i).finalized /\ ~Market(i).data_request_finalized)
                          => /\ last'.result = "ERR_DATA_REQUEST_NOT_FINALIZED"
                             /\ markets' = markets
                             /\ ~markets'[i + 1].finalized
       /\ \A i \in MarketIds :
             (~Market(i).data_request_finalized /\ markets'[i + 1].data_request_finalized)
                 => (last'.op = "set_outcome" /\ last'.result = "OK" /\ last'.mid = i)]_vars

C6_Witness ==
    /\ last.op = "resolute_market" /\ last.result = "OK"
    /\ Market(last.mid).finalized
    /\ ~Market(last.mid).payout_numerator.some
    /\ Market(last.mid).data_request_finalized

\* C7: resolute_market with a payout vector from a caller that is not
\* governance fails and changes no market.
C7_OnlyGovernanceSuppliesPayout ==
    [][\A c \in Callers \ {Gov}, i \in Ids, p \in PayoutArgs \ {None} :
          (last'.op = "resolute_market" /\ resolute_market(c, i, p))
              => (last'.result # "OK" /\ markets' = markets)]_vars

C7_Witness ==
    /\ last.op = "resolute_market" /\ last.result = "ERR_NO_GOVERNANCE_ADDRESS"
    /\ ~Market(last.mid).finalized

\* C8: set_outcome from a caller that is not the oracle fails and leaves the
\* payout_numerator and data_request_finalized of every market unchanged.
\* Stated by contraposition: a set_outcome step that succeeds, or that changes
\* one of these fields, is not the step of any call by a non-oracle caller.
SetOutcomeChangedNothing ==
    /\ last'.result # "OK"
    /\ Len(markets') = Len(markets)
    /\ \A i \in MarketIds :
          /\ markets'[i + 1].payout_numerator = Market(i).payout_numerator
          /\ markets'[i + 1].data_request_finalized = Market(i).data_request_finalized

C8_OnlyOracleSetsOutcome ==
    [][(last'.op = "set_outcome" /\ ~SetOutcomeChangedNothing)
          => \A c \in Callers \ {Oracle}, o \in Outcomes, t \in TagArgs :
                ~set_outcome(c, o, t)]_vars

C8_Witness ==
    /\ last.op = "set_outcome" /\ last.result = "ERR_NO_ORACLE_ADDRESS"
    /\ markets # <<>>

\* C9: buy, sell and add_liquidity succeed only on an open market (enabled,
\* not finalized, now < end_time); from end_time on they fail and leave the
\* markets unchanged, with ERR_MARKET_ENDED when the market is enabled and
\* not finalized.
TradeStep(i) ==
    \/ last'.op = "buy" /\ \E c \in Traders, a \in Amounts, t \in Targets, m \in Amounts :
                               buy(c, i, a, t, m)
    \/ last'.op = "sell" /\ \E c \in Traders, a \in Amounts, t \in Targets, m \in Amounts :
                                sell(c, i, a, t, m)
    \/ last'.op = "add_liquidity" /\ \E c \in Traders, a \in Amounts, w \in WeightArgs :
                                         add_liquidity(c, i, a, w)

C9_TradingOnlyWhileOpen ==
    [][\A i \in MarketIds :
          TradeStep(i)
              => /\ last'.result = "OK" => IsOpen(i)
                 /\ now >= Market(i).end_time
                       => /\ last'.result # "OK"
                          /\ markets' = markets
                          /\ (Market(i).enabled /\ ~Market(i).finalized)
                                => last'.result = "ERR_MARKET_ENDED"]_vars

C9_Witness ==
    /\ last.op = "sell" /\ last.result = "ERR_MARKET_ENDED"
    /\ \E t \in DOMAIN Market(last.mid).pool.outcome_reserves :
          Market(last.mid).pool.outcome_share_balances["alice"][t] > 0

\* C10 (as stated): exit_pool and burn_outcome_tokens_redeem_collateral
\* succeed only on an open market.
ExitStep(i) ==
    last'.op = "exit_pool" /\ \E c \in Traders, a \in Amounts : exit_pool(c, i, a)

BurnStep(i) ==
    /\ last'.op = "burn_outcome_tokens_redeem_collateral"
    /\ \E c \in Traders, a \in Amounts : burn_outcome_tokens_redeem_collateral(c, i, a)

C10_ExitAndBurnOnlyWhileOpen ==
    [][\A i \in MarketIds :
          ((ExitStep(i) \/ BurnStep(i)) /\ last'.result = "OK") => IsOpen(i)]_vars

\* C10 (amended): exit_pool succeeds only on an enabled market and
\* burn_outcome_tokens_redeem_collateral only on an enabled market that is
\* not finalized; neither checks end_time.  On a finalized market the burn
\* fails with ERR_MARKET_FINALIZED and changes no market.
C10_ExitAndBurnGuards ==
    [][\A i \in MarketIds :
          /\ (ExitStep(i) /\ last'.result = "OK") => Market(i).enabled
          /\ BurnStep(i)
                => /\ last'.result = "OK" => (Market(i).enabled /\ ~Market(i).finalized)
                   /\ Market(i).finalized
                         => (last'.result = "ERR_MARKET_FINALIZED" /\ markets' = markets)]_vars

C10_Witness ==
    /\ last.op = "burn_outcome_tokens_redeem_collateral"
    /\ last.result = "ERR_MARKET_FINALIZED"
    /\ \A t \in DOMAIN Market(last.mid).pool.outcome_reserves :
          Market(last.mid).pool.outcome_share_balances["alice"][t] > 0

\* C11: claim_earnings succeeds only on a finalized market; on an unfinalized
\* market it fails with ERR_NOT_FINALIZED, changes no market (so no share
\* balance) and issues no transfer.
ClaimStep(i) ==
    last'.op = "claim_earnings" /\ \E c \in Traders : claim_earnings(c, i)

C11_ClaimOnlyWhenFinalized ==
    [][\A i \in MarketIds :
          ClaimStep(i)
              => /\ last'.result = "OK" => Market(i).finalized
                 /\ ~Market(i).finalized
                       => /\ last'.result = "ERR_NOT_FINALIZED"
                          /\ markets' = markets
                          /\ ~last'.transfer.issued]_vars

C11_Witness ==
    /\ last.op = "claim_earnings" /\ last.result = "ERR_NOT_FINALIZED"
    /\ ~Market(last.mid).finalized
    /\ \E t \in DOMAIN Market(last.mid).pool.outcome_reserves :
          Market(last.mid).pool.outcome_share_balances["alice"][t] > 0

\* C12: a market becomes finalized only from AwaitingResolution: no step sets
\* finalized on a market while the time is before the market's end_time.
C12_FinalizedOnlyAfterEndTime ==
    [][\A i \in MarketIds :
          (~Market(i).finalized /\ markets'[i + 1].finalized) => now >= Market(i).end_time]_vars

\* C13: no double claim.  A successful claim_earnings transfers the full
\* amount owed (the sum over the outcomes of balance * payout_numerator /
\* collateral_denomination) and zeroes every outcome-share balance of the
\* account; a claim_earnings that follows a successful one on the same market
\* fails with ERR_NO_PAYOUT, transfers nothing and changes no market.
Owed(market, account) ==
    SumSeq([t \in DOMAIN market.pool.outcome_reserves |->
               (market.pool.outcome_share_balances[account][t]
                    * Unwrap(market.payout_numerator)[t])
                   \div market.pool.collateral_denomination])

C13_NoDoubleClaim ==
    [][\A i \in MarketIds, c \in Traders :
          (last'.op = "claim_earnings" /\ claim_earnings(c, i))
              => /\ last'.result = "OK"
                       => /\ Market(i).payout_numerator.some
                                => last'.transfer = Transfer(c, Owed(Market(i), c))
                          /\ \A t \in DOMAIN Market(i).pool.outcome_reserves :
                                markets'[i + 1].pool.outcome_share_balances[c][t] = 0
                 /\ (last.op = "claim_earnings" /\ last.result = "OK" /\ last.mid = i)
                       => /\ last'.result = "ERR_NO_PAYOUT"
                          /\ ~last'.transfer.issued
                          /\ markets' = markets]_vars

C13_Witness ==
    /\ last.op = "claim_earnings" /\ last.result = "OK"
    /\ last.transfer.issued /\ last.transfer.amount > 0
    /\ \A t \in DOMAIN Market(last.mid).pool.outcome_reserves :
          Market(last.mid).pool.outcome_share_balances["alice"][t] = 0

\* C14: scalar resolution is linear interpolation with clamping on the signed
\* number line: on a scalar market with signed bounds L < U, set_outcome with
\* a numeric answer of signed value A stores payout_numerator = [S, D - S],
\* S = floor((U - clamp(A, L, U)) * D / (U - L)), D the collateral
\* denomination.
SignedValue(n) == IF n.negative THEN 0 - n.value ELSE n.value

ClampSigned(a, l, u) == IF a < l THEN l ELSE IF a > u THEN u ELSE a

Interpolated(market, answer) ==
    LET L == SignedValue(market.outcome_tags[1])
        U == SignedValue(market.outcome_tags[2])
        D == market.pool.collateral_denomination
        S == ((U - ClampSigned(SignedValue(answer), L, U)) * D) \div (U - L)
    IN  Some(<<S, D - S>>)

ScalarAnswerStep(i, a) ==
    /\ last'.op = "set_outcome"
    /\ Market(i).is_scalar
    /\ set_outcome(Oracle, OutcomeAnswer(a), <<U128ToString(i)>>)

C14_ScalarIsLinearInterpolation ==
    [][\A i \in MarketIds, a \in ScalarAnswers :
          ScalarAnswerStep(i, a)
              => /\ last'.result = "OK"
                 /\ markets'[i + 1].payout_numerator = Interpolated(Market(i), a)]_vars

\* C15: an answer outside the bound range is clamped to the nearest bound for
\* the three legal sign combinations of the bounds: an answer whose signed
\* value is below the lower bound resolves to [D, 0], and one whose signed
\* value is above the upper bound resolves to [0, D].
Below(market, a) == SignedValue(a) < SignedValue(market.outcome_tags[1])

Above(market, a) == SignedValue(a) > SignedValue(market.outcome_tags[2])

C15_OutOfRangeAnswerIsClamped ==
    [][\A i \in MarketIds, a \in ScalarAnswers :
          (last'.op = "set_outcome" /\ Market(i).is_scalar
             /\ (Below(Market(i), a) \/ Above(Market(i), a))
             /\ ScalarAnswerStep(i, a))
              => /\ last'.result = "OK"
                 /\ markets'[i + 1].payout_numerator
                        = IF Below(Market(i), a)
                          THEN Some(<<Market(i).pool.collateral_denomination, 0>>)
                          ELSE Some(<<0, Market(i).pool.collateral_denomination>>)]_vars

\* The three sign combinations, each resolved by an answer below its lower
\* bound and by an answer above its upper bound.
SignCombination(market) ==
    <<market.outcome_tags[1].negative, market.outcome_tags[2].negative>>

C15_Witness ==
    /\ last.op = "set_outcome" /\ last.result = "OK"
    /\ Market(last.mid).is_scalar
    /\ SignCombination(Market(last.mid)) = <<TRUE, FALSE>>
    /\ Market(last.mid).outcome_tags[2].value > 0
    /\ Market(last.mid).payout_numerator = Some(<<0, Market(last.mid).pool.collateral_denomination>>)

\* C16: categorical resolution is one-hot: set_outcome with a label that
\* matches an outcome tag of a categorical market stores a payout_numerator
\* of length outcome_count with collateral_denomination at the index of the
\* matching tag and 0 at every other index.
TagLabel(tag) == IF tag.kind = "String" THEN tag.str ELSE U128ToString(tag.value)

Matches(market, label) ==
    {k \in DOMAIN market.outcome_tags : TagLabel(market.outcome_tags[k]) = label}

LabelStep(i, label) ==
    /\ last'.op = "set_outcome"
    /\ ~Market(i).is_scalar
    /\ set_outcome(Oracle, OutcomeAnswer(AnswerString(label)), <<U128ToString(i)>>)

C16_CategoricalIsOneHot ==
    [][\A i \in MarketIds, l \in Labels :
          (LabelStep(i, l) /\ Matches(Market(i), l) # {})
              => /\ last'.result = "OK"
                 /\ markets'[i + 1].payout_numerator.some
                 /\ LET v == Unwrap(markets'[i + 1].payout_numerator)
                    IN  /\ Len(v) = Market(i).pool.outcomes
                        /\ \A k \in DOMAIN v :
                              v[k] = IF k \in Matches(Market(i), l)
                                     THEN Market(i).pool.collateral_denomination
                                     ELSE 0]_vars

C16_Witness ==
    /\ last.op = "set_outcome" /\ last.result = "OK"
    /\ ~Market(last.mid).is_scalar
    /\ Market(last.mid).pool.outcomes = 3
    /\ Market(last.mid).payout_numerator
           = Some(<<0, Market(last.mid).pool.collateral_denomination, 0>>)

\* C17: set_outcome with a label that matches none of the market's outcome
\* tags fails with ERR_OUTCOME_NOT_IN_TAGS, leaves payout_numerator and
\* data_request_finalized unchanged and forwards no validity bond.
C17_UnknownLabelFails ==
    [][\A i \in MarketIds, l \in Labels :
          (LabelStep(i, l) /\ Matches(Market(i), l) = {})
              => /\ last'.result = "ERR_OUTCOME_NOT_IN_TAGS"
                 /\ markets' = markets
                 /\ ~last'.transfer.issued]_vars

C17_Witness ==
    /\ last.op = "set_outcome" /\ last.result = "ERR_OUTCOME_NOT_IN_TAGS"
    /\ Market(last.mid).payout_numerator.some
    /\ Market(last.mid).data_request_finalized

\* C18: set_outcome with Outcome::Invalid stores payout_numerator = None on
\* the market it addresses and sets data_request_finalized = true.
C18_InvalidOutcomeStoresNone ==
    [][\A i \in MarketIds :
          (last'.op = "set_outcome" /\ set_outcome(Oracle, OutcomeInvalid, <<U128ToString(i)>>))
              => /\ last'.result = "OK"
                 /\ markets'[i + 1].payout_numerator = None
                 /\ markets'[i + 1].data_request_finalized]_vars

C18_Witness ==
    /\ last.op = "set_outcome" /\ last.result = "OK"
    /\ Market(last.mid).payout_numerator = None
    /\ Market(last.mid).data_request_finalized

\* C19: a governance resolute_market call with a vector v of length
\* outcome_count that sums to collateral_denomination, on an enabled and not
\* yet finalized market, succeeds and leaves the market with
\* payout_numerator = v and finalized = true.
ValidPayout(market, v) ==
    /\ Len(v) = market.pool.outcomes
    /\ SumSeq(v) = market.pool.collateral_denomination

C19_GovernanceOverrideFinalizes ==
    [][\A i \in MarketIds, p \in PayoutArgs \ {None} :
          (last'.op = "resolute_market"
             /\ Market(i).enabled /\ ~Market(i).finalized
             /\ ValidPayout(Market(i), Unwrap(p))
             /\ resolute_market(Gov, i, p))
              => /\ last'.result = "OK"
                 /\ markets'[i + 1].payout_numerator = p
                 /\ markets'[i + 1].finalized]_vars

C19_Witness ==
    /\ last.op = "resolute_market" /\ last.result = "OK"
    /\ Market(last.mid).finalized
    /\ Market(last.mid).payout_numerator = Some(<<1, Denom - 1>>)
    /\ Market(last.mid).data_request_finalized

\* C20: a governance-supplied payout vector is rejected when its elements do
\* not sum to collateral_denomination (ERR_INVALID_PAYOUT_SUM) or when its
\* length differs from the pool's outcome count (ERR_INVALID_NUMERATOR, the
\* sum being checked first); in both cases the market stays unfinalized with
\* its previous payout_numerator.
C20_InvalidPayoutIsRejected ==
    [][\A i \in MarketIds, p \in PayoutArgs \ {None} :
          (last'.op = "resolute_market"
             /\ Market(i).enabled /\ ~Market(i).finalized
             /\ ~ValidPayout(Market(i), Unwrap(p))
             /\ resolute_market(Gov, i, p))
              => LET v == Unwrap(p)
                     D == Market(i).pool.collateral_denomination
                 IN  /\ last'.result # "OK"
                     /\ markets' = markets
                     /\ ~markets'[i + 1].finalized
                     /\ (SumSeq(v) # D /\ SumSeq(v) <= MaxU128)
                           => last'.result = "ERR_INVALID_PAYOUT_SUM"
                     /\ (SumSeq(v) = D /\ Len(v) # Market(i).pool.outcomes)
                           => last'.result = "ERR_INVALID_NUMERATOR"]_vars

C20_Witness ==
    /\ last.op = "resolute_market" /\ last.result = "ERR_INVALID_NUMERATOR"
    /\ ~Market(last.mid).finalized
    /\ Market(last.mid).payout_numerator.some

\* C21: a create_market call that fails validation (a scalar market with a
\* tag count other than 2, a non-numeric bound tag, equal or crossed bounds,
\* a negative-zero bound or no multiplier; a tag count different from
\* outcomes; an end_time not in the future; a resolution_time before
\* end_time; a collateral that is not whitelisted) fails and creates no
\* market record: the stored markets are unchanged.
IsNegativeZero(tag) == tag.kind = "Number" /\ tag.negative /\ tag.value = 0

FailsValidation(p) ==
    \/ p.collateral_token_id # Token
    \/ Len(p.outcome_tags) # p.outcomes
    \/ p.end_time <= now
    \/ p.resolution_time < p.end_time
    \/ /\ p.is_scalar
       /\ \/ ~p.scalar_multiplier.some
          \/ Len(p.outcome_tags) # 2
          \/ \E k \in DOMAIN p.outcome_tags : k <= 2 /\ p.outcome_tags[k].kind # "Number"
          \/ \E k \in DOMAIN p.outcome_tags : k <= 2 /\ IsNegativeZero(p.outcome_tags[k])
          \/ /\ Len(p.outcome_tags) = 2
             /\ p.outcome_tags[1].kind = "Number" /\ p.outcome_tags[2].kind = "Number"
             /\ SignedValue(p.outcome_tags[1]) >= SignedValue(p.outcome_tags[2])

\* Stated by contraposition: a create_market step that succeeds or changes
\* the stored markets is the step of no call with such a payload.
C21_FailedCreateStoresNothing ==
    [][\A p \in CreatePayloads :
          (last'.op = "create_market" /\ FailsValidation(p)
             /\ ~(last'.result # "OK" /\ markets' = markets))
              => ~create_market("alice", p)]_vars

C21_Witness ==
    /\ last.op = "create_market" /\ last.result = "ERR_NEGATIVE_ZERO"
    /\ Len(markets) = 1

\* C22: create_market accepts a scalar bound pair exactly when the signed
\* lower bound is strictly below the signed upper bound and neither bound
\* is negative zero: (neg, neg) needs lower magnitude > upper magnitude,
\* (pos, pos) needs lower magnitude < upper magnitude, (neg, pos) is
\* accepted, and (pos, neg) is rejected (with ERR_WRONG_BOUNDS unless the
\* upper bound is negative zero, which is rejected first).
C22_ScalarBoundsAccepted ==
    [][\A p \in ScalarPayloads :
          (last'.op = "create_market" /\ p.end_time > now /\ create_market("alice", p))
              => LET l == p.outcome_tags[1]
                     u == p.outcome_tags[2]
                     zero == IsNegativeZero(l) \/ IsNegativeZero(u)
                 IN  /\ last'.result = "OK" <=> (~zero /\ SignedValue(l) < SignedValue(u))
                     /\ (l.negative /\ u.negative /\ ~zero)
                           => (last'.result = "OK" <=> l.value > u.value)
                     /\ (~l.negative /\ ~u.negative)
                           => (last'.result = "OK" <=> l.value < u.value)
                     /\ (l.negative /\ ~u.negative /\ ~zero) => last'.result = "OK"
                     /\ (~l.negative /\ u.negative /\ ~zero)
                           => last'.result = "ERR_WRONG_BOUNDS"]_vars

C22_Witness ==
    /\ last.op = "create_market" /\ last.result = "ERR_WRONG_BOUNDS"
    /\ markets = <<>>

\* C23: every stored market has resolution_time >= end_time and an end_time
\* strictly later than the time of its creation; with a whitelisted
\* collateral and a matching tag count, create_market fails with
\* ERR_INVALID_END_TIME when end_time is not in the future and otherwise
\* with ERR_INVALID_RESOLUTION_TIME when resolution_time < end_time.
\* The error part is stated by contraposition: a create_market step with
\* another result is the step of no call with such times.
TimeError(p) ==
    IF p.end_time <= now THEN "ERR_INVALID_END_TIME"
    ELSE IF p.resolution_time < p.end_time THEN "ERR_INVALID_RESOLUTION_TIME"
    ELSE "OK"

C23_CreationTimes ==
    [][/\ \A k \in DOMAIN markets' : markets'[k].resolution_time >= markets'[k].end_time
       /\ (last'.op = "create_market" /\ now' = now /\ Len(markets') > Len(markets))
             => markets'[Len(markets')].end_time > now
       /\ \A p \in CreatePayloads :
             (last'.op = "create_market"
                /\ p.collateral_token_id = Token /\ Len(p.outcome_tags) = p.outcomes
                /\ TimeError(p) # "OK" /\ last'.result # TimeError(p))
                 => ~create_market("alice", p)]_vars

C23_Witness ==
    /\ last.op = "create_market" /\ last.result = "ERR_INVALID_RESOLUTION_TIME"
    /\ Len(markets) = 1
    /\ markets[1].resolution_time > markets[1].end_time

(***************************************************************************)
(* C24: every failing operation leaves markets exactly as it was and       *)
(* issues no outbound transfer; this includes claim_earnings failing with  *)
(* ERR_NO_PAYOUT after the pool's payout has burned the caller's shares.   *)
(***************************************************************************)
C24_FailedCallChangesNothing ==
    [][last'.result # "OK" => (markets' = markets /\ ~last'.transfer.issued)]_vars

C24_Witness ==
    /\ last.op = "claim_earnings" /\ last.result = "ERR_NO_PAYOUT"
    /\ HasMarket(last.mid)
    /\ \E i \in 1 .. Market(last.mid).pool.outcomes :
            Market(last.mid).pool.outcome_share_balances["alice"][i] > 0

(***************************************************************************)
(* C25: a call of sell, burn_outcome_tokens_redeem_collateral, exit_pool   *)
(* or claim_earnings that issues a transfer has written the updated        *)
(* market first: the stored ledger the transfer leaves from carries the    *)
(* sender's debit (shares sold, shares burned, LP tokens redeemed, shares  *)
(* paid out).                                                              *)
(***************************************************************************)
Debited(op, old, new, account) ==
    LET n == old.outcomes
        was == old.outcome_share_balances[account]
        is == new.outcome_share_balances[account]
    IN  CASE op = "sell" ->
               /\ \A i \in 1 .. n : is[i] <= was[i]
               /\ \E i \in 1 .. n : is[i] < was[i]
          [] op = "burn_outcome_tokens_redeem_collateral" ->
               \A i \in 1 .. n : is[i] < was[i]
          [] op = "exit_pool" ->
               new.lp_balances[account] < old.lp_balances[account]
          [] op = "claim_earnings" ->
               /\ \A i \in 1 .. n : is[i] = 0
               /\ \E i \in 1 .. n : was[i] > 0

C25_LedgerWrittenBeforeTransfer ==
    [][(/\ now' = now
        /\ last'.transfer.issued
        /\ last'.op \in {"sell", "burn_outcome_tokens_redeem_collateral",
                         "exit_pool", "claim_earnings"})
          => /\ last'.result = "OK"
             /\ HasMarket(last'.mid)
             /\ Len(markets') = Len(markets)
             /\ Debited(last'.op, Market(last'.mid).pool,
                        markets'[last'.mid + 1].pool, last'.transfer.to)]_vars

C25_Witness ==
    /\ last.op = "exit_pool" /\ last.result = "OK" /\ last.transfer.issued
    /\ last.transfer.amount > 0

(***************************************************************************)
(* C26: market ids are sequential: a successful create_market returns the  *)
(* number of markets stored before it and stores exactly one more, so the  *)
(* k-th successful creation returns k - 1; the number of markets never     *)
(* decreases, it grows only by a successful create_market, and a stored    *)
(* market keeps its id.                                                    *)
(***************************************************************************)
C26_SequentialIds ==
    [][/\ Len(markets') >= Len(markets)
       /\ \A k \in DOMAIN markets :
              /\ markets'[k].dr_creator = markets[k].dr_creator
              /\ markets'[k].outcome_tags = markets[k].outcome_tags
              /\ markets'[k].end_time = markets[k].end_time
       /\ Len(markets') > Len(markets)
              => last'.op = "create_market" /\ last'.result = "OK"
       /\ (now' = now /\ last'.op = "create_market" /\ last'.result = "OK")
              => /\ last'.mid = Len(markets)
                 /\ Len(markets') = Len(markets) + 1]_vars

C26_Witness ==
    /\ Len(markets) = 2
    /\ last.op = "create_market" /\ last.result = "OK" /\ last.mid = 1

(***************************************************************************)
(* C27: every operation and view that takes a market_id fails with         *)
(* ERR_NO_MARKET when the id is not the id of a stored market (it is at    *)
(* least the number of markets), and changes no state.                     *)
(***************************************************************************)
TakesMarketId(op) == op \notin {"init", "create_market"}

C27_UnknownMarketFails ==
    [][(now' = now /\ TakesMarketId(last'.op) /\ last'.mid >= Len(markets))
          => (last'.result = "ERR_NO_MARKET" /\ markets' = markets)]_vars

(***************************************************************************)
(* C27 as the code has it: set_outcome asserts the oracle before it looks  *)
(* the market up, so a caller other than the oracle gets                   *)
(* ERR_NO_ORACLE_ADDRESS for an unknown id; the oracle, and every caller   *)
(* of every other operation and view, gets ERR_NO_MARKET.  No state        *)
(* changes either way.                                                     *)
(***************************************************************************)
C27_UnknownMarketFailsAfterOracleCheck ==
    [][/\ (now' = now /\ TakesMarketId(last'.op) /\ last'.mid >= Len(markets))
            => /\ markets' = markets
               /\ ~last'.transfer.issued
               /\ last'.op # "set_outcome" => last'.result = "ERR_NO_MARKET"
       /\ \A c \in Callers, t \in TagArgs :
            (/\ last'.op = "set_outcome"
             /\ set_outcome_market_id(t) >= Len(markets)
             /\ last'.result # (IF c = Oracle THEN "ERR_NO_MARKET"
                                ELSE "ERR_NO_ORACLE_ADDRESS"))
                => ~set_outcome(c, OutcomeInvalid, t)]_vars

C27_Witness ==
    /\ Len(markets) = 1
    /\ last.op = "view" /\ last.mid = 1 /\ last.result = "ERR_NO_MARKET"

(***************************************************************************)
(* C28: sell transfers collateral_out minus the fee the pool escrowed and  *)
(* burn_outcome_tokens_redeem_collateral transfers to_burn minus the fee   *)
(* the pool escrowed, both to the sender; the amount transferred never     *)
(* exceeds the amount requested.  The fee escrowed by a call is the        *)
(* growth of the pool's fee_pool_weight over the call.                     *)
(***************************************************************************)
Escrowed(i) == markets'[i + 1].pool.fee_pool_weight - Market(i).pool.fee_pool_weight

NetTransfer(i, requested) ==
    /\ last'.transfer.issued
    /\ last'.transfer.to = "alice"
    /\ last'.transfer.amount = requested - Escrowed(i)
    /\ last'.transfer.amount <= requested

C28_TransferIsNetOfFee ==
    [][\A i \in MarketIds, a \in FeeAmounts :
          /\ (/\ last'.op = "sell" /\ last'.result = "OK" /\ last'.mid = i
              /\ \E t \in Targets, m \in FeeAmounts : sell("alice", i, a, t, m))
                => NetTransfer(i, a)
          /\ (/\ last'.op = "burn_outcome_tokens_redeem_collateral"
              /\ last'.result = "OK" /\ last'.mid = i
              /\ burn_outcome_tokens_redeem_collateral("alice", i, a))
                => NetTransfer(i, a)]_vars

C28_Witness ==
    /\ last.op = "sell" /\ last.result = "OK"
    /\ last.transfer.issued /\ last.transfer.amount = 0
    /\ Market(last.mid).pool.fee_pool_weight = 1

(***************************************************************************)
(* C29: fee_pool_weight of a pool never decreases except in exit_pool,     *)
(* and for every account the fees withdrawable never exceed the account's  *)
(* proportional share lp_balance * fee_pool_weight / lp_supply.            *)
(***************************************************************************)
ProportionalShare(pool, account) ==
    IF pool.lp_supply = 0 THEN 0
    ELSE (pool.lp_balances[account] * pool.fee_pool_weight) \div pool.lp_supply

BothNegative(market) ==
    /\ market.is_scalar
    /\ market.outcome_tags[1].negative /\ market.outcome_tags[2].negative

NegativeRangePayout(market, a) ==
    LET lb == market.outcome_tags[1].value
        ub == market.outcome_tags[2].value
        D == market.pool.collateral_denomination
        S == ((a.value - ub) * D) \div (lb - ub)
    IN  IF a.negative THEN Some(<<S, D - S>>) ELSE Some(<<0, D>>)

C30_NegativeRangeInterpolation ==
    [][\A i \in MarketIds, a \in ScalarAnswers :
          (/\ last'.op = "set_outcome"
           /\ BothNegative(Market(i))
           /\ \/ ~a.negative
              \/ /\ Market(i).outcome_tags[2].value <= a.value
                 /\ a.value <= Market(i).outcome_tags[1].value
           /\ ScalarAnswerStep(i, a))
              => /\ last'.result = "OK"
                 /\ markets'[i + 1].payout_numerator = NegativeRangePayout(Market(i), a)]_vars

C30_Witness ==
    /\ last.op = "set_outcome" /\ last.result = "OK"
    /\ BothNegative(Market(last.mid))
    /\ Market(last.mid).payout_numerator.some
    /\ LET v == Unwrap(Market(last.mid).payout_numerator)
       IN  0 < v[1] /\ v[1] < Market(last.mid).pool.collateral_denomination

(***************************************************************************)
(* C31: for a scalar market with a negative lower bound of magnitude lb    *)
(* and a non-negative upper bound ub, a negative answer of magnitude       *)
(* a <= lb is shifted to lb - a, so that [S, D - S] is stored with         *)
(* S = floor((ub + a) * D / (ub + lb)); a non-negative answer a is shifted *)
(* to a + lb, so that S = floor((ub - a) * D / (ub + lb)), or 0 above ub.  *)
(***************************************************************************)
MixedSign(market) ==
    /\ market.is_scalar
    /\ market.outcome_tags[1].negative /\ ~market.outcome_tags[2].negative

MixedSignPayout(market, a) ==
    LET lb == market.outcome_tags[1].value
        ub == market.outcome_tags[2].value
        D == market.pool.collateral_denomination
        shifted == IF a.negative THEN lb - a.value ELSE a.value + lb
        pointer == IF shifted > ub + lb THEN ub + lb ELSE shifted
        S == ((ub + lb - pointer) * D) \div (ub + lb)
    IN  Some(<<S, D - S>>)

C31_MixedSignShift ==
    [][\A i \in MarketIds, a \in ScalarAnswers :
          (/\ last'.op = "set_outcome"
           /\ MixedSign(Market(i))
           /\ a.negative => a.value <= Market(i).outcome_tags[1].value
           /\ ScalarAnswerStep(i, a))
              => /\ last'.result = "OK"
                 /\ markets'[i + 1].payout_numerator = MixedSignPayout(Market(i), a)]_vars

(***************************************************************************)
(* C32: exit_pool issues a collateral transfer to the sender exactly when  *)
(* the fees earned that the pool returns are greater than zero, and the    *)
(* amount transferred is those fees; with no fees earned it issues no      *)
(* transfer.                                                               *)
(***************************************************************************)
C32_ExitTransfersFeesEarned ==
    [][\A i \in MarketIds :
          (now' = now /\ last'.op = "exit_pool" /\ last'.result = "OK" /\ last'.mid = i)
              => LET fees_earned == get_fees_withdrawable(Market(i).pool, "alice")
                 IN  /\ last'.transfer.issued <=> fees_earned > 0
                     /\ last'.transfer.issued
                           => /\ last'.transfer.to = "alice"
                              /\ last'.transfer.amount = fees_earned]_vars

C32_Witness ==
    /\ last.op = "exit_pool" /\ last.result = "OK"
    /\ ~last.transfer.issued
    /\ Market(last.mid).pool.fee_pool_weight = 0

(***************************************************************************)
(* C33: set_outcome rejects an answer of the wrong shape: a label answer   *)
(* on a scalar market fails with ERR_NUMBER_EXPECTED and a numeric answer  *)
(* on a categorical market with ERR_STRING_EXPECTED; payout_numerator and  *)
(* data_request_finalized, and the rest of the market, are unchanged.      *)
(***************************************************************************)
ShapeError(market, a) ==
    IF market.is_scalar /\ a.kind = "String" THEN "ERR_NUMBER_EXPECTED"
    ELSE IF ~market.is_scalar /\ a.kind = "Number" THEN "ERR_STRING_EXPECTED"
    ELSE "OK"

C33_WrongShapeIsRejected ==
    [][\A i \in MarketIds, a \in Answers :
          (/\ last'.op = "set_outcome"
           /\ ShapeError(Market(i), a) # "OK"
           /\ ~(last'.result = ShapeError(Market(i), a) /\ markets' = markets))
              => ~set_outcome(Oracle, OutcomeAnswer(a), <<U128ToString(i)>>)]_vars

C33_Witness ==
    /\ last.op = "set_outcome" /\ last.result = "ERR_STRING_EXPECTED"
    /\ HasMarket(last.mid) /\ ~Market(last.mid).is_scalar
    /\ ~Market(last.mid).data_request_finalized

(***************************************************************************)
(* C34: the scalar payout is monotone in the answer: for a scalar market   *)
(* and two numeric answers with signed values A1 <= A2 that both resolve,  *)
(* the payout stored for index 1 (the upper outcome) under A1 is at most   *)
(* the one stored under A2.                                                *)
(***************************************************************************)
LongPayout(payout_numerator) == Unwrap(payout_numerator)[2]

C34_ScalarPayoutIsMonotone ==
    [][\A i \in MarketIds, a1 \in ScalarAnswers, a2 \in ScalarAnswers :
          (/\ last'.op = "set_outcome" /\ last'.result = "OK"
           /\ SignedValue(a1) <= SignedValue(a2)
           /\ set_outcome_result(Oracle, OutcomeAnswer(a1), <<U128ToString(i)>>) = "OK"
           /\ ScalarAnswerStep(i, a2))
              => LongPayout(set_outcome_payout(Market(i), OutcomeAnswer(a1)))
                    <= LongPayout(markets'[i + 1].payout_numerator)]_vars

(***************************************************************************)
(* C35: for every scalar market that passed the validation of              *)
(* create_market and every numeric answer of either sign, negative zero    *)
(* included, the scalar branch of set_outcome never divides by zero and    *)
(* never underflows a subtraction: the shifted range is strictly positive, *)
(* the clamped pointer is at most the shifted upper bound and payout_short *)
(* is at most collateral_denomination.                                     *)
(***************************************************************************)
C35_ScalarArithmeticIsSafe ==
    \A i \in MarketIds :
        Market(i).is_scalar
            => \A a \in ScalarAnswers :
                  LET market == Market(i)
                      D == market.pool.collateral_denomination
                      r == ScalarOutcome(market.outcome_tags[1], market.outcome_tags[2], a, D)
                  IN  /\ r.fault \notin {"underflow", "division by zero"}
                      /\ r.fault = ""
                            => /\ r.range > 0
                               /\ r.pointer_value <= r.upper_bound
                               /\ r.v[1] <= D
                               /\ r.v[1] >= 0 /\ r.v[2] >= 0

C35_Witness ==
    /\ last.op = "set_outcome" /\ last.result = "OK"
    /\ BothNegative(Market(last.mid))
    /\ Market(last.mid).outcome_tags[1].value = Market(last.mid).outcome_tags[2].value + 1
    /\ Market(last.mid).payout_numerator
          = Some(<<Market(last.mid).pool.collateral_denomination, 0>>)

(***************************************************************************)
(* C36: the resolution flags are monotone: once finalized is true of a     *)
(* market it is true in every later state, and once data_request_finalized *)
(* is true it is true in every later state.                                *)
(***************************************************************************)
C36_ResolutionFlagsAreMonotone ==
    [][\A k \in DOMAIN markets :
          /\ k \in DOMAIN markets'
          /\ markets[k].finalized => markets'[k].finalized
          /\ markets[k].data_request_finalized => markets'[k].data_request_finalized]_vars

C36_Witness ==
    /\ last.op = "set_outcome" /\ last.result = "OK"
    /\ Market(last.mid).finalized
    /\ Market(last.mid).data_request_finalized
    /\ Market(last.mid).payout_numerator = None

(***************************************************************************)
(* C37: the parameters a market is created with are immutable: no          *)
(* operation changes end_time, resolution_time, outcome_tags, is_scalar,   *)
(* scalar_multiplier, or the outcome count and the collateral denomination *)
(* of its pool.                                                            *)
(***************************************************************************)
CreationParameters(market) ==
    <<market.end_time, market.resolution_time, market.outcome_tags, market.is_scalar,
      market.scalar_multiplier, market.pool.outcomes, market.pool.collateral_denomination>>

C37_CreationParametersAreImmutable ==
    [][\A k \in DOMAIN markets :
          /\ k \in DOMAIN markets'
          /\ CreationParameters(markets'[k]) = CreationParameters(markets[k])]_vars

C37_Witness ==
    /\ last.op = "resolute_market" /\ last.result = "OK"
    /\ Market(last.mid).finalized
    /\ Market(last.mid).resolution_time > now
    /\ Market(last.mid).pool.lp_supply > 0

(***************************************************************************)
(* C38: an operation addressed to market i (buy, sell, add_liquidity,      *)
(* exit_pool, burn, resolute_market, set_outcome, claim_earnings) leaves   *)
(* every other stored market unchanged, and create_market leaves all the   *)
(* markets stored before it unchanged.                                     *)
(***************************************************************************)
C38_OtherMarketsAreUntouched ==
    [][\A k \in DOMAIN markets :
          (last'.op = "create_market" \/ k # last'.mid + 1)
              => (k \in DOMAIN markets' /\ markets'[k] = markets[k])]_vars

C38_Witness ==
    /\ Len(markets) = 2
    /\ last.op = "buy" /\ last.result = "OK" /\ last.mid = 1
    /\ markets[1].pool.lp_supply > 0
    /\ markets[1].pool # markets[2].pool

(***************************************************************************)
(* C39: the validity bond of a market is forwarded to the market's creator *)
(* at most once: a set_outcome for a market whose outcome has already been *)
(* set (data_request_finalized, which only a successful set_outcome sets)  *)
(* does not forward the bond again.                                        *)
(***************************************************************************)
C39_BondForwardedAtMostOnce ==
    [][(/\ now' = now
        /\ last'.op = "set_outcome"
        /\ HasMarket(last'.mid)
        /\ Market(last'.mid).data_request_finalized)
          => ~last'.transfer.issued]_vars

(***************************************************************************)
(* C40: no enabled market stays unresolved: in every reachable state, for  *)
(* every market that is enabled and not finalized, a resolute_market call  *)
(* of the governance account with a valid payout vector succeeds, so with  *)
(* a fair governance the market is eventually finalized.                   *)
(***************************************************************************)
Unresolved(i) == HasMarket(i) /\ Market(i).enabled /\ ~Market(i).finalized

OneHotFirst(market) ==
    Some([k \in 1 .. market.pool.outcomes |->
            IF k = 1 THEN market.pool.collateral_denomination ELSE 0])

C40_EnabledMarketGetsFinalized ==
    /\ [](\A i \in Ids :
            Unresolved(i) => resolute_market_result(Gov, i, OneHotFirst(Market(i))) = "OK")
    /\ \A i \in Ids : Unresolved(i) ~> (HasMarket(i) /\ Market(i).finalized)

C40_Witness ==
    /\ last.op = "resolute_market" /\ last.result = "OK"
    /\ Market(last.mid).finalized
    /\ ~Market(last.mid).data_request_finalized
    /\ Market(last.mid).pool.outcomes = 3
    /\ Market(last.mid).payout_numerator = Some(<<0, 0, Denom>>)

====
